---- MODULE Spec2Model ----
(***************************************************************************)
(* State-machine model of the pvss package (polynomial evaluation, share   *)
(* generation, Feldman commitments, DLEQ proofs, share encryption and      *)
(* decryption, hash-to-point), of the Google identity verifier of package  *)
(* auth and of the configuration loading of package dkgnode.               *)
(*                                                                         *)
(* The source works on secp256k1 with 256-bit integers.  The model keeps   *)
(* the curve family and the relations between the parameters, on numbers   *)
(* TLC can enumerate:                                                      *)
(*   curve       y^2 = x^3 + 7 over the prime field of fieldOrder elements *)
(*   fieldOrder  43, a prime with fieldOrder % 4 = 3 (as secp256k1's p)    *)
(*   generatorOrder 31, the prime number of points of that curve,          *)
(*               generatorOrder < fieldOrder (as secp256k1's n < p)        *)
(*   sqRoot      (fieldOrder + 1) / 4 = 11                                 *)
(*   digest      Keccak256 yields 6 bits: 2^6 = 64 is the power of two     *)
(*               just above fieldOrder, as 2^256 is just above p           *)
(* big.Int is a TLA+ integer (no width, as in Go).                         *)
(***************************************************************************)
EXTENDS Integers, Sequences, FiniteSets, TLC

\* ---------------------------------------------------------------- bounds
MaxDataLen == 2      \* longest byte input given to hashToPoint
MaxByte == 9         \* input bytes are drawn from 0..MaxByte
MaxNodes == 3        \* largest n (number of nodes / shares)
MaxThreshold == 4    \* largest polynomial threshold
MaxEvalPoint == 3    \* largest x given to a direct polyEval call
HashCap == 3         \* the iteration cap the specification asks of hashToPoint
MaxTokenLen == 2     \* longest id token in a request payload
MaxIatLen == 2       \* longest iat string in a token response

\* ------------------------------------------------------ group parameters
fieldOrder == 43
generatorOrder == 31
sqRoot == 11
DigestModulus == 64

\* ------------------------------------------------------- big.Int helpers
RECURSIVE Exp(_, _, _)
\* big.Int.Exp(x, y, m) = x^y mod m, y >= 0
Exp(x, y, m) ==
    IF y = 0 THEN 1 % m
    ELSE LET h == Exp(x, y \div 2, m)
             s == (h * h) % m
         IN  IF y % 2 = 1 THEN (s * (x % m)) % m ELSE s

RECURSIVE Bytes(_)
\* big.Int.Bytes(): big-endian bytes of |n|, no leading zero; empty for 0
Bytes(n) ==
    LET a == IF n < 0 THEN 0 - n ELSE n
    IN  IF a = 0 THEN << >>
        ELSE Append(Bytes(a \div 256), a % 256)

RECURSIVE SetBytes(_)
\* big.Int.SetBytes(b): b read as a big-endian unsigned integer
SetBytes(b) ==
    IF Len(b) = 0 THEN 0
    ELSE SetBytes(SubSeq(b, 1, Len(b) - 1)) * 256 + b[Len(b)]

\* z.ModInverse(g, n): z becomes the inverse of g in Z/nZ; when g and n are
\* not coprime there is none and z is left as it was
ModInverse(z, g, n) ==
    IF \E w \in 0..(n - 1) : (g * w) % n = 1 % n
    THEN CHOOSE w \in 0..(n - 1) : (g * w) % n = 1 % n
    ELSE z

RECURSIVE KeccakFold(_, _)
KeccakFold(h, data) ==
    IF Len(data) = 0 THEN h
    ELSE KeccakFold((h * 37 + data[1] + 11) % DigestModulus, Tail(data))

\* Keccak256(data): a fixed deterministic digest of the bytes written, here a
\* one-byte digest below DigestModulus
Keccak256(data) == << KeccakFold(41, data) >>

\* --------------------------------------------------------- curve (s, G)
Point(px, py) == [x |-> px, y |-> py]

\* the library's point at infinity, returned as the affine pair (0, 0)
Infinity == Point(0, 0)

G == Point(2, 12)

\* s.IsOnCurve(x, y): y^2 = x^3 + 7 (mod fieldOrder)
IsOnCurve(P) ==
    (P.y * P.y) % fieldOrder = (P.x * P.x * P.x + 7) % fieldOrder

FieldInv(a) == Exp(a % fieldOrder, fieldOrder - 2, fieldOrder)

\* s.Add: the group law of the curve
PointAdd(P, Q) ==
    LET x1 == P.x % fieldOrder
        y1 == P.y % fieldOrder
        x2 == Q.x % fieldOrder
        y2 == Q.y % fieldOrder
    IN  IF P = Infinity THEN Point(x2, y2)
        ELSE IF Q = Infinity THEN Point(x1, y1)
        ELSE IF x1 = x2 /\ (y1 + y2) % fieldOrder = 0 THEN Infinity
        ELSE LET lambda ==
                   IF x1 = x2
                   THEN (3 * x1 * x1 * FieldInv(2 * y1)) % fieldOrder
                   ELSE ((y2 - y1) * FieldInv(x2 - x1)) % fieldOrder
                 x3 == (lambda * lambda - x1 - x2) % fieldOrder
                 y3 == (lambda * (x1 - x3) - y1) % fieldOrder
             IN  Point(x3, y3)

RECURSIVE PointMul(_, _)
\* k*P for an integer k >= 0, by double-and-add
PointMul(P, k) ==
    IF k = 0 THEN Infinity
    ELSE LET h == PointMul(P, k \div 2)
             d == PointAdd(h, h)
         IN  IF k % 2 = 1 THEN PointAdd(d, P) ELSE d

\* s.ScalarMult(Bx, By, k): k is a big-endian byte string
ScalarMult(B, k) == PointMul(B, SetBytes(k))

\* s.ScalarBaseMult(k)
ScalarBaseMult(k) == ScalarMult(G, k)

\* the loop body without the check that y is a square root of beta
hashCandidateUnchecked(x) ==
    LET beta == (Exp(x, 3, fieldOrder) + 7) % fieldOrder
        y == Exp(beta, sqRoot, fieldOrder)
    IN  [beta |-> beta, y |-> y, found |-> TRUE]

\* hashToPoint, one pass of the loop body on candidate x
hashCandidate(x) ==
    LET beta == (Exp(x, 3, fieldOrder) + 7) % fieldOrder
        y == Exp(beta, sqRoot, fieldOrder)
    IN  [beta |-> beta, y |-> y, found |-> Exp(y, 2, fieldOrder) = beta]

\* ----------------------------------------------------------- polynomial
RECURSIVE polyEvalLoop(_, _, _, _)
\* the for loop of polyEval, entered at index i with the locals xi and sum
polyEvalLoop(polynomial, i, xi, sum) ==
    IF i >= polynomial.threshold THEN sum
    ELSE polyEvalLoop(polynomial, i + 1,
                      (xi * xi) % fieldOrder,
                      (sum + xi * polynomial.coeff[i + 1]) % fieldOrder)

\* the loop started one index early, so that coeff[0] is added twice
polyEvalFromZero(polynomial, x) ==
    polyEvalLoop(polynomial, 0, x, 0 + polynomial.coeff[1])

\* polyEval(polynomial, x): sum starts as coeff[0], the loop runs from i = 1
polyEval(polynomial, x) ==
    polyEvalLoop(polynomial, 1, x, 0 + polynomial.coeff[1])

\* the loop body evaluating at the 0-based position i instead of i + 1
getSharesStepAtI(polynomial, shares, i) ==
    [x |-> i, shares |-> [shares EXCEPT ![i + 1] = polyEval(polynomial, i)]]

\* getShares, one pass of the loop body: shares[i] = *polyEval(polynomial, i+1)
\* (shares is 0-based in the source, 1-based here); x is the evaluation point
\* handed to polyEval, which polyEval prints
getSharesStep(polynomial, shares, i) ==
    [x |-> i + 1,
     shares |-> [shares EXCEPT ![i + 1] = polyEval(polynomial, i + 1)]]

RECURSIVE getSharesLoop(_, _, _)
getSharesLoop(polynomial, shares, i) ==
    IF i >= Len(shares) THEN shares
    ELSE getSharesLoop(polynomial,
                       getSharesStep(polynomial, shares, i).shares, i + 1)

\* getShares(polynomial, n) run to completion
getShares(polynomial, n) ==
    getSharesLoop(polynomial, [j \in 1..n |-> 0], 0)

\* getCommit(polynomial, threshold): commits[i] = coeff[i] * G
getCommit(polynomial, threshold) ==
    [k \in 1..threshold |-> ScalarBaseMult(Bytes(polynomial.coeff[k]))]

\* ----------------------------------------------------------- DLEQ proof
RECURSIVE concatPoints(_)
\* the hashing bytes: element.x.Bytes() then element.y.Bytes(), per point
concatPoints(points) ==
    IF Len(points) = 0 THEN << >>
    ELSE Bytes(points[1].x) \o Bytes(points[1].y) \o concatPoints(Tail(points))

\* createDlEQProof(secret, nodePubKey) with the nonce v that randomBigInt drew
createDlEQProof(secret, nodePubKey, v) ==
    LET xG == ScalarBaseMult(Bytes(secret))
        xH == ScalarMult(nodePubKey, Bytes(secret))
        vG == ScalarBaseMult(Bytes(v))
        vH == ScalarMult(nodePubKey, Bytes(v))
        cb == concatPoints(<< xG, xH, vG, vH >>)
        hashed == Keccak256(cb)
        c == SetBytes(hashed)
        r == v - ((c * secret) % fieldOrder)
    IN  [c |-> c, r |-> r, vG |-> vG, vH |-> vH, xG |-> xG, xH |-> xH]

\* batchCreateDLEQProof(nodes, shares) with one nonce per proof in vs
batchCreateDLEQProof(nodes, shares, vs) ==
    IF Len(nodes) # Len(shares)
    THEN [type |-> "nil", val |-> << >>]
    ELSE [type |-> "[]*DLEQProof",
          val |-> [i \in 1..Len(nodes) |->
                     createDlEQProof(shares[i].Value, nodes[i], vs[i])]]

\* ------------------------------------------------------- GoogleVerifier
\* strings that the code trims or parses are sequences of one-character
\* strings; strings that are only compared are TLA+ strings

RECURSIVE TrimLeft(_)
TrimLeft(str) ==
    IF Len(str) > 0 /\ str[1] = " " THEN TrimLeft(Tail(str)) ELSE str

RECURSIVE TrimRight(_)
TrimRight(str) ==
    IF Len(str) > 0 /\ str[Len(str)] = " "
    THEN TrimRight(SubSeq(str, 1, Len(str) - 1))
    ELSE str

\* strings.Trim(s, " "): leading and trailing spaces removed
Trim(str) == TrimRight(TrimLeft(str))

DigitValue ==
    [c \in {"0", "1", "2", "3", "4", "5", "6", "7", "8", "9"} |->
       CASE c = "0" -> 0 [] c = "1" -> 1 [] c = "2" -> 2 [] c = "3" -> 3
         [] c = "4" -> 4 [] c = "5" -> 5 [] c = "6" -> 6 [] c = "7" -> 7
         [] c = "8" -> 8 [] c = "9" -> 9]

RECURSIVE AtoiDigits(_)
AtoiDigits(str) ==
    IF Len(str) = 0 THEN 0
    ELSE AtoiDigits(SubSeq(str, 1, Len(str) - 1)) * 10
           + DigitValue[str[Len(str)]]

\* strconv.Atoi(s) on an unsigned decimal string: the number, or an error for
\* the empty string and for any character that is not a digit
Atoi(str) ==
    IF Len(str) > 0 /\ \A k \in 1..Len(str) : str[k] \in DOMAIN DigitValue
    THEN [value |-> AtoiDigits(str), err |-> "nil"]
    ELSE [value |-> 0, err |-> "strconv.Atoi: invalid syntax"]

\* NewDefaultGoogleVerifier: Timeout is 60 seconds
Timeout == 60

NewDefaultGoogleVerifier(clientID) ==
    [Version |-> "1.0", clientID |-> clientID, Timeout |-> Timeout]

\* CleanToken(rawPayload): nil when the payload does not unmarshal, else the
\* payload marshalled again with the spaces around IDToken trimmed
CleanToken(rawPayload) ==
    IF ~ rawPayload.wellFormed
    THEN [isNil |-> TRUE]
    ELSE [isNil |-> FALSE, wellFormed |-> TRUE,
          Index |-> rawPayload.Index,
          IDToken |-> Trim(rawPayload.IDToken),
          Email |-> rawPayload.Email]

\* the body of VerifyRequestIdentity without the azp comparison
VerifyRequestIdentityNoAzp(g, rawPayload, http, now) ==
    LET p == CleanToken(rawPayload)
    IN  IF p.Email = "" \/ p.IDToken = << >>
        THEN [ok |-> FALSE, err |-> "invalid payload parameters"]
        ELSE IF http.kind = "getError"
        THEN [ok |-> FALSE, err |-> "client.Get failed"]
        ELSE IF http.kind = "readError"
        THEN [ok |-> FALSE, err |-> "ReadAll failed"]
        ELSE IF http.kind = "badJSON"
        THEN [ok |-> FALSE, err |-> "Unmarshal failed"]
        ELSE LET body == http.body
                 timeSignedInt == Atoi(body.Iat)
             IN  IF timeSignedInt.err # "nil"
                 THEN [ok |-> FALSE, err |-> timeSignedInt.err]
                 ELSE IF timeSignedInt.value + g.Timeout < now
                 THEN [ok |-> FALSE,
                       err |-> "timesigned is more than 60 seconds ago"]
                 ELSE IF p.Email # body.Email
                 THEN [ok |-> FALSE, err |-> "email not equal to body.email"]
                 ELSE [ok |-> TRUE, err |-> "nil"]

\* VerifyRequestIdentity(rawPayload) of verifier g, for a payload that
\* CleanToken accepts; http is what the token endpoint answered and now is
\* time.Now() in seconds
VerifyRequestIdentity(g, rawPayload, http, now) ==
    LET p == CleanToken(rawPayload)
    IN  IF p.Email = "" \/ p.IDToken = << >>
        THEN [ok |-> FALSE, err |-> "invalid payload parameters"]
        ELSE IF http.kind = "getError"
        THEN [ok |-> FALSE, err |-> "client.Get failed"]
        ELSE IF http.kind = "readError"
        THEN [ok |-> FALSE, err |-> "ReadAll failed"]
        ELSE IF http.kind = "badJSON"
        THEN [ok |-> FALSE, err |-> "Unmarshal failed"]
        ELSE LET body == http.body
                 timeSignedInt == Atoi(body.Iat)
             IN  IF timeSignedInt.err # "nil"
                 THEN [ok |-> FALSE, err |-> timeSignedInt.err]
                 ELSE IF timeSignedInt.value + g.Timeout < now
                 THEN [ok |-> FALSE,
                       err |-> "timesigned is more than 60 seconds ago"]
                 ELSE IF g.clientID # body.Azp
                 THEN [ok |-> FALSE, err |-> "azip is not clientID"]
                 ELSE IF p.Email # body.Email
                 THEN [ok |-> FALSE, err |-> "email not equal to body.email"]
                 ELSE [ok |-> TRUE, err |-> "nil"]

\* --------------------------------------------------------------- Config
\* the flags that createConfigWithFlags registers, with their defaults
FlagDefaults ==
    [register |-> TRUE, debug |-> FALSE, ethprivateKey |-> "",
     ipAddress |-> "", cpuProfile |-> "", ethConnection |-> "",
     nodeListAddress |-> "", basePath |-> "/.torus", configPath |-> ""]

\* the Config field that each flag controls
FieldOf ==
    [register |-> "ShouldRegister", debug |-> "IsDebug",
     ethprivateKey |-> "EthPrivateKey", ipAddress |-> "ProvidedIPAddress",
     cpuProfile |-> "CPUProfileToFile", ethConnection |-> "EthConnection",
     nodeListAddress |-> "NodeListAddress", basePath |-> "BasePath"]

\* defaultConfigSettings(): the fields loadConfig reads or writes; fields the
\* literal leaves out have Go's zero value.  MainServerAddress is kept as the
\* list of the strings it is concatenated from.
defaultConfigSettings ==
    [HttpServerPort |-> "443",
     MainServerAddress |-> << "127.0.0.1:443" >>,
     EthConnection |-> "http://178.128.178.162:14103",
     EthPrivateKey |->
       "29909a750dc6abc3e3c83de9c6da9d6faf9fde4eebb61fa21221415557de5a0b",
     P2PListenAddress |-> "/ip4/0.0.0.0/tcp/1080",
     NodeListAddress |-> "0x4e8fce1336c534e0452410c2cb8cd628949dcc85",
     BasePath |-> "/.torus",
     ShouldRegister |-> FALSE,
     CPUProfileToFile |-> "",
     IsDebug |-> FALSE,
     ProvidedIPAddress |-> "",
     LogLevel |-> "debug"]

\* isFlagPassed(name): flag.Visit reaches only the flags set on the command line
isFlagPassed(flags, name) == flags[name].passed

\* the value a flag pointer holds after flag.Parse()
FlagValue(flags, name) ==
    IF flags[name].passed THEN flags[name].val ELSE FlagDefaults[name]

\* c.createConfigWithFlags(): c edited by the flags passed, and *configPath
createConfigWithFlags(c, flags) ==
    LET c1 == IF isFlagPassed(flags, "register")
              THEN [c EXCEPT !.ShouldRegister = FlagValue(flags, "register")]
              ELSE c
        c2 == IF isFlagPassed(flags, "debug")
              THEN [c1 EXCEPT !.IsDebug = FlagValue(flags, "debug")]
              ELSE c1
        c3 == IF isFlagPassed(flags, "ethprivateKey")
              THEN [c2 EXCEPT !.EthPrivateKey =
                                 FlagValue(flags, "ethprivateKey")]
              ELSE c2
        c4 == IF isFlagPassed(flags, "ipAddress")
              THEN [c3 EXCEPT !.ProvidedIPAddress =
                                 FlagValue(flags, "ipAddress")]
              ELSE c3
        c5 == IF isFlagPassed(flags, "cpuProfile")
              THEN [c4 EXCEPT !.CPUProfileToFile =
                                 FlagValue(flags, "cpuProfile")]
              ELSE c4
        c6 == IF isFlagPassed(flags, "ethConnection")
              THEN [c5 EXCEPT !.EthConnection =
                                 FlagValue(flags, "ethConnection")]
              ELSE c5
        c7 == IF isFlagPassed(flags, "nodeListAddress")
              THEN [c6 EXCEPT !.NodeListAddress =
                                 FlagValue(flags, "nodeListAddress")]
              ELSE c6
        c8 == IF isFlagPassed(flags, "basePath")
              THEN [c7 EXCEPT !.BasePath = FlagValue(flags, "basePath")]
              ELSE c7
    IN  [c |-> c8, configPath |-> FlagValue(flags, "configPath")]

\* a merge that copies the eight fields whether or not the flag was passed
mergeWithFlagsUnconditional(c, flagConfig, flags) ==
    [c EXCEPT !.ShouldRegister = flagConfig.ShouldRegister,
              !.IsDebug = flagConfig.IsDebug,
              !.EthPrivateKey = flagConfig.EthPrivateKey,
              !.ProvidedIPAddress = flagConfig.ProvidedIPAddress,
              !.CPUProfileToFile = flagConfig.CPUProfileToFile,
              !.EthConnection = flagConfig.EthConnection,
              !.NodeListAddress = flagConfig.NodeListAddress,
              !.BasePath = flagConfig.BasePath]

\* c.mergeWithFlags(flagConfig)
mergeWithFlags(c, flagConfig, flags) ==
    LET c1 == IF isFlagPassed(flags, "register")
              THEN [c EXCEPT !.ShouldRegister = flagConfig.ShouldRegister]
              ELSE c
        c2 == IF isFlagPassed(flags, "debug")
              THEN [c1 EXCEPT !.IsDebug = flagConfig.IsDebug]
              ELSE c1
        c3 == IF isFlagPassed(flags, "ethprivateKey")
              THEN [c2 EXCEPT !.EthPrivateKey = flagConfig.EthPrivateKey]
              ELSE c2
        c4 == IF isFlagPassed(flags, "ipAddress")
              THEN [c3 EXCEPT !.ProvidedIPAddress =
                                 flagConfig.ProvidedIPAddress]
              ELSE c3
        c5 == IF isFlagPassed(flags, "cpuProfile")
              THEN [c4 EXCEPT !.CPUProfileToFile =
                                 flagConfig.CPUProfileToFile]
              ELSE c4
        c6 == IF isFlagPassed(flags, "ethConnection")
              THEN [c5 EXCEPT !.EthConnection = flagConfig.EthConnection]
              ELSE c5
        c7 == IF isFlagPassed(flags, "nodeListAddress")
              THEN [c6 EXCEPT !.NodeListAddress = flagConfig.NodeListAddress]
              ELSE c6
        c8 == IF isFlagPassed(flags, "basePath")
              THEN [c7 EXCEPT !.BasePath = flagConfig.BasePath]
              ELSE c7
    IN  c8

\* a layer (the JSON document, the environment) gives some fields a value:
\* the fields it names are set in c, the others are left as they are
ApplyLayer(c, layer) ==
    [fld \in DOMAIN c |->
       IF fld \in DOMAIN layer /\ layer[fld].set
       THEN layer[fld].val
       ELSE c[fld]]

\* readAndMarshallJSONConfig(configPath, c): an error and c untouched when the
\* file cannot be opened, else c with the fields of the document
readAndMarshallJSONConfig(fs, configPath, c) ==
    IF ~ (configPath \in DOMAIN fs /\ fs[configPath].exists)
    THEN [c |-> c, err |-> "open failed"]
    ELSE [c |-> ApplyLayer(c, fs[configPath].json), err |-> "nil"]

\* env.Parse(&conf): every field whose environment variable is set
envParse(environ, c) == ApplyLayer(c, environ)

\* loadConfig(configPath) with the command line flags, the files fs and the
\* environment environ
loadConfig(configPath, flags, fs, environ) ==
    LET conf0 == defaultConfigSettings
        flagConf0 == defaultConfigSettings
        created == createConfigWithFlags(flagConf0, flags)
        flagConf == created.c
        providedCF == created.configPath
        path == IF providedCF # "" THEN providedCF ELSE configPath
        conf1 == readAndMarshallJSONConfig(fs, path, conf0).c
        conf2 == envParse(environ, conf1)
        conf3 == mergeWithFlags(conf2, flagConf, flags)
        conf4 == IF conf3.ProvidedIPAddress # ""
                 THEN [conf3 EXCEPT
                         !.MainServerAddress =
                           << conf3.ProvidedIPAddress, ":",
                              conf3.HttpServerPort >>]
                 ELSE conf3
    IN  conf4

\* ------------------------------------------------------------ Go values
GoValue(t, v) == [type |-> t, val |-> v]
NoValue == GoValue("none", << >>)
NoFrame == [fn |-> "none"]

\* ---------------------------------------------------------------- state
VARIABLES pc, frame, ret, stdout
vars == << pc, frame, ret, stdout >>

DataInputs ==
    UNION { [1..len -> 0..MaxByte] : len \in 0..MaxDataLen }

\* randomBigInt draws from 0..fieldOrder-1; the values tried here
ScalarSamples == {0, 1, generatorOrder - 1, fieldOrder - 1}
NonceSamples == {1, fieldOrder - 1}

\* private keys tried, and the node public keys d*G they give
KeySamples == {1, 3, generatorOrder - 1}
NodeKeys == { PointMul(G, d) : d \in {3, generatorOrder - 1} }

Polynomials ==
    UNION { [coeff : [1..t -> ScalarSamples], threshold : {t}] :
            t \in 1..MaxThreshold }

NodeLists == UNION { [1..n -> NodeKeys] : n \in 0..MaxNodes }

ShareLists ==
    UNION { { [j \in 1..n |-> [Index |-> j, Value |-> values[j]]] :
              values \in [1..n -> ScalarSamples] } : n \in 0..MaxNodes }
\* strings of at most maxLen characters over chars
Strings(chars, maxLen) == UNION { [1..len -> chars] : len \in 0..maxLen }

\* request payloads: one that does not unmarshal, and every combination of
\* the sample emails and id tokens
Payloads ==
    { [wellFormed |-> FALSE] }
      \cup [wellFormed : {TRUE}, Index : {1},
            IDToken : Strings({" ", "t"}, MaxTokenLen),
            Email : {"", "a@x", "b@x"}]

\* what the token endpoint can answer
HttpResults ==
    { [kind |-> k] : k \in {"getError", "readError", "badJSON"} }
      \cup [kind : {"body"},
            body : [Azp : {"cid", "other"}, Email : {"a@x", "b@x"},
                    Iat : Strings({"0", "9", "x"}, MaxIatLen)]]

NowSamples == {0, Timeout, 90 + Timeout, 91 + Timeout, 99 + Timeout + 1}

FlagNames == DOMAIN FieldOf
BoolFlags == {"register", "debug"}

\* values a source can give a field: both booleans, or a string that names
\* the source and the field
FlagSample ==
    [ethprivateKey |-> "flag-key", ipAddress |-> "10.0.0.1",
     cpuProfile |-> "flag.prof", ethConnection |-> "http://flag",
     nodeListAddress |-> "0xflag", basePath |-> "/flag"]
EnvSample ==
    [EthPrivateKey |-> "env-key", ProvidedIPAddress |-> "10.0.0.2",
     CPUProfileToFile |-> "env.prof", EthConnection |-> "http://env",
     NodeListAddress |-> "0xenv", BasePath |-> "/env"]
JsonSample ==
    [EthPrivateKey |-> "json-key", ProvidedIPAddress |-> "10.0.0.3",
     CPUProfileToFile |-> "json.prof", EthConnection |-> "http://json",
     NodeListAddress |-> "0xjson", BasePath |-> "/json"]

NotPassed(name) == [passed |-> FALSE, val |-> FlagDefaults[name]]
Unset(name) ==
    [set |-> FALSE, val |-> IF name \in BoolFlags THEN FALSE ELSE ""]

\* what the three sources say about the field of one flag: the flag is not
\* passed, passed with its default or passed with another value; the
\* environment and the document each leave the field out or set it
FlagChoices(name) ==
    { NotPassed(name) }
      \cup { [passed |-> TRUE, val |-> v] :
             v \in IF name \in BoolFlags THEN BOOLEAN
                   ELSE {FlagDefaults[name], FlagSample[name]} }
EnvChoices(name) ==
    { Unset(name) }
      \cup { [set |-> TRUE, val |-> v] :
             v \in IF name \in BoolFlags THEN BOOLEAN
                   ELSE {EnvSample[FieldOf[name]]} }
JsonChoices(name) ==
    { Unset(name) }
      \cup { [set |-> TRUE, val |-> v] :
             v \in IF name \in BoolFlags THEN BOOLEAN
                   ELSE {JsonSample[FieldOf[name]]} }

Init ==
    /\ pc = "idle"
    /\ frame = NoFrame
    /\ ret = NoValue
    /\ stdout = << >>

\* ---------------------------------------------------------- hashToPoint
hashToPointCall ==
    /\ pc = "idle"
    /\ \E data \in DataInputs :
         frame' = [fn |-> "hashToPoint", data |-> data,
                   x |-> SetBytes(Keccak256(data)), iter |-> 0]
    /\ pc' = "hashToPoint"
    /\ UNCHANGED << ret, stdout >>

hashToPointRetry ==
    /\ pc = "hashToPoint"
    /\ ~ hashCandidate(frame.x).found
    /\ frame' = [frame EXCEPT !.x = @ + 1, !.iter = @ + 1]
    /\ UNCHANGED << pc, ret, stdout >>

hashToPointReturn ==
    /\ pc = "hashToPoint"
    /\ hashCandidate(frame.x).found
    /\ ret' = GoValue("Point", Point(frame.x, hashCandidate(frame.x).y))
    /\ pc' = "done"
    /\ UNCHANGED << frame, stdout >>

\* ------------------------------------------------------------- polyEval
polyEvalCall ==
    /\ pc = "idle"
    /\ \E polynomial \in Polynomials, x \in 0..MaxEvalPoint :
         /\ frame' = [fn |-> "polyEval", polynomial |-> polynomial, x |-> x]
         /\ ret' = GoValue("big.Int", polyEval(polynomial, x))
         /\ stdout' = Append(stdout, x)
    /\ pc' = "done"

\* ------------------------------------------------------------ getShares
getSharesCall ==
    /\ pc = "idle"
    /\ \E polynomial \in Polynomials, n \in 0..MaxNodes :
         frame' = [fn |-> "getShares", polynomial |-> polynomial, n |-> n,
                   shares |-> [j \in 1..n |-> 0], i |-> 0]
    /\ pc' = "getShares"
    /\ UNCHANGED << ret, stdout >>

getSharesIter ==
    /\ pc = "getShares"
    /\ frame.i < Len(frame.shares)
    /\ LET step == getSharesStep(frame.polynomial, frame.shares, frame.i)
       IN  /\ frame' = [frame EXCEPT !.shares = step.shares, !.i = @ + 1]
           /\ stdout' = Append(stdout, step.x)
    /\ UNCHANGED << pc, ret >>

getSharesReturn ==
    /\ pc = "getShares"
    /\ frame.i >= Len(frame.shares)
    /\ ret' = GoValue("[]big.Int", frame.shares)
    /\ pc' = "done"
    /\ UNCHANGED << frame, stdout >>

\* ------------------------------------------------------ createDlEQProof
createDlEQProofCall ==
    /\ pc = "idle"
    /\ \E secret \in ScalarSamples, nodePubKey \in NodeKeys,
          v \in ScalarSamples :
         /\ frame' = [fn |-> "createDlEQProof", secret |-> secret,
                      nodePubKey |-> nodePubKey, v |-> v]
         /\ ret' = GoValue("*DLEQProof",
                           createDlEQProof(secret, nodePubKey, v))
    /\ pc' = "done"
    /\ UNCHANGED stdout

\* ------------------------------------------------- batchCreateDLEQProof
batchCreateDLEQProofCall ==
    /\ pc = "idle"
    /\ \E nodes \in NodeLists, shares \in ShareLists :
       \E vs \in [1..Len(nodes) -> NonceSamples] :
         /\ frame' = [fn |-> "batchCreateDLEQProof", nodes |-> nodes,
                      shares |-> shares]
         /\ ret' = batchCreateDLEQProof(nodes, shares, vs)
    /\ pc' = "done"
    /\ UNCHANGED stdout

\* ------------------------------------------------------------ encShares
\* threshold >= 1: with threshold = 0 the write to coeff[0] panics
encSharesCall ==
    /\ pc = "idle"
    /\ \E nodes \in NodeLists, secret \in ScalarSamples,
          threshold \in 1..MaxThreshold :
       \E random \in [1..(threshold - 1) -> ScalarSamples] :
         LET n == Len(nodes)
             encryptedShares == [j \in 1..n |-> 0]
             coeff == << secret >> \o random
             polynomial == [coeff |-> coeff, threshold |-> threshold]
             shares == getShares(polynomial, n)
             commits == getCommit(polynomial, threshold)
         IN  /\ frame' = [fn |-> "encShares", nodes |-> nodes,
                          secret |-> secret, threshold |-> threshold,
                          n |-> n, encryptedShares |-> encryptedShares,
                          polynomial |-> polynomial, shares |-> shares,
                          commits |-> commits]
             /\ stdout' = stdout \o [j \in 1..n |-> j]
    /\ ret' = GoValue("void", << >>)
    /\ pc' = "done"

\* ------------------------------------------------------------- DecShare
\* the caller holds the key pair (d, d*G) and the encrypted share
\* S = value * publicKey; DecShare computes modInv and returns a zero big.Int
DecShareCall ==
    /\ pc = "idle"
    /\ \E d \in KeySamples, value \in ScalarSamples,
          consistencyProof \in {0, 1} :
         LET publicKey == PointMul(G, d)
             S == ScalarMult(publicKey, Bytes(value))
         IN  frame' = [fn |-> "DecShare", encShareX |-> S.x,
                       encShareY |-> S.y,
                       consistencyProof |-> consistencyProof,
                       key |-> [D |-> d, PublicKey |-> publicKey],
                       modInv |-> ModInverse(0, generatorOrder, d)]
    /\ ret' = GoValue("big.Int", 0)
    /\ pc' = "done"
    /\ UNCHANGED stdout

\* ------------------------------------------------ VerifyRequestIdentity
\* a payload that CleanToken rejects makes the call dereference nil: the call
\* panics and does not complete
VerifyRequestIdentityCall ==
    /\ pc = "idle"
    /\ \E rawPayload \in Payloads, http \in HttpResults, now \in NowSamples :
         LET g == NewDefaultGoogleVerifier("cid")
         IN  /\ frame' = [fn |-> "VerifyRequestIdentity", g |-> g,
                          rawPayload |-> rawPayload, http |-> http,
                          now |-> now]
             /\ IF CleanToken(rawPayload).isNil
                THEN /\ pc' = "panic"
                     /\ ret' = NoValue
                ELSE /\ pc' = "done"
                     /\ ret' = GoValue("(bool, error)",
                                 VerifyRequestIdentity(g, rawPayload, http, now))
    /\ UNCHANGED stdout

\* ----------------------------------------------------------- loadConfig
\* the sources differ from "nothing given" on the fields of two flags, n1 and
\* n2; the configPath flag is absent or names a file that does not exist
loadConfigCall ==
    /\ pc = "idle"
    /\ \E n1 \in FlagNames, n2 \in FlagNames :
       \E f1 \in FlagChoices(n1), e1 \in EnvChoices(n1), j1 \in JsonChoices(n1),
          f2 \in FlagChoices(n2), e2 \in EnvChoices(n2), j2 \in JsonChoices(n2),
          cp \in {NotPassed("configPath"),
                  [passed |-> TRUE, val |-> "alt.json"]} :
         LET Pick(n, v1, v2, none) ==
               IF n = n1 THEN v1 ELSE IF n = n2 THEN v2 ELSE none
             flags == [n \in DOMAIN FlagDefaults |->
                         IF n = "configPath" THEN cp
                         ELSE Pick(n, f1, f2, NotPassed(n))]
             environ == [fld \in {FieldOf[n] : n \in FlagNames} |->
                           LET n == CHOOSE m \in FlagNames : FieldOf[m] = fld
                           IN  Pick(n, e1, e2, Unset(n))]
             json == [fld \in {FieldOf[n] : n \in FlagNames} |->
                        LET n == CHOOSE m \in FlagNames : FieldOf[m] = fld
                        IN  Pick(n, j1, j2, Unset(n))]
             fs == [p \in {"config.json"} |-> [exists |-> TRUE, json |-> json]]
         IN  /\ frame' = [fn |-> "loadConfig", configPath |-> "config.json",
                          flags |-> flags, fs |-> fs, environ |-> environ]
             /\ ret' = GoValue("*Config",
                               loadConfig("config.json", flags, fs, environ))
    /\ pc' = "done"
    /\ UNCHANGED stdout

\* the caller takes the result; the next call starts from a fresh frame
Return ==
    /\ pc = "done"
    /\ pc' = "idle"
    /\ frame' = NoFrame
    /\ ret' = NoValue
    /\ stdout' = << >>

Next ==
    \/ hashToPointCall
    \/ hashToPointRetry
    \/ hashToPointReturn
    \/ polyEvalCall
    \/ getSharesCall
    \/ getSharesIter
    \/ getSharesReturn
    \/ createDlEQProofCall
    \/ batchCreateDLEQProofCall
    \/ encSharesCall
    \/ DecShareCall
    \/ VerifyRequestIdentityCall
    \/ loadConfigCall
    \/ Return

Spec == Init /\ [][Next]_vars


\* --------------------------------------------------- reference notions
RECURSIVE HornerEval(_, _)
\* Horner evaluation of coeff at x modulo the group order: the value
\* (sum over k of coeff[k] * x^k) mod generatorOrder
HornerEval(coeff, x) ==
    IF Len(coeff) = 0 THEN 0
    ELSE (coeff[1] + x * HornerEval(Tail(coeff), x)) % generatorOrder

\* k*P for any integer scalar k, taken modulo the group order
GroupMul(P, k) == PointMul(P, k % generatorOrder)

RECURSIVE CommitEval(_, _)
\* sum over k of C_k * index^k, by Horner on points
CommitEval(commits, index) ==
    IF Len(commits) = 0 THEN Infinity
    ELSE PointAdd(commits[1], GroupMul(CommitEval(Tail(commits), index), index))

Returned(fn) == pc = "done" /\ frame.fn = fn

\* ---------------------------------------------------------------- claims

\* C1: for every polynomial and every share index x >= 1, polyEval returns
\* (sum over k of coeff[k] * x^k) mod generatorOrder, the Horner value.
C1_PolyEvalIsHorner ==
    (Returned("polyEval") /\ frame.x >= 1)
        => ret.val = HornerEval(frame.polynomial.coeff, frame.x)

\* C2: the proof (c, r, vG, vH, xG, xH) that createDlEQProof produces for
\* (secret, nodePubKey) passes verification against nodePubKey:
\* r*G + c*xG = vG, r*Y + c*xH = vH and hash(xG||xH||vG||vH) = c.
C2_DLEQComplete ==
    Returned("createDlEQProof")
        => LET p == ret.val
               Y == frame.nodePubKey
           IN  /\ PointAdd(GroupMul(G, p.r), GroupMul(p.xG, p.c)) = p.vG
               /\ PointAdd(GroupMul(Y, p.r), GroupMul(p.xH, p.c)) = p.vH
               /\ SetBytes(Keccak256(concatPoints(<< p.xG, p.xH, p.vG, p.vH >>)))
                    = p.c

\* C3: every share value that getShares produces satisfies the Feldman check
\* against the commitments of getCommit: value*G = sum over k of C_k * i^k.
C3_FeldmanConsistent ==
    Returned("encShares")
        => \A i \in 1..frame.n :
             ScalarBaseMult(Bytes(frame.shares[i]))
               = CommitEval(frame.commits, i)

\* C4: DecShare on the encrypted share S = v*publicKey with the private key d
\* (publicKey = d*G, d # 0) yields the point d^-1 * S, which equals v*G.
C4_DecShareCorrect ==
    Returned("DecShare")
        => /\ ret.type = "Point"
           /\ ret.val = PointMul(Point(frame.encShareX, frame.encShareY),
                                 ModInverse(0, frame.key.D, generatorOrder))
           /\ \A v \in 0..(generatorOrder - 1) :
                Point(frame.encShareX, frame.encShareY)
                    = PointMul(frame.key.PublicKey, v)
                  => ret.val = PointMul(G, v)

\* C5: for 1 <= threshold <= n, encShares outputs a bundle with threshold
\* commitments and, per node i, the encrypted share shares[i]*publicKey_i
\* with a DLEQ proof generated for (shares[i], publicKey_i).
C5_EncSharesBundle ==
    (Returned("encShares") /\ frame.threshold <= frame.n)
        => /\ ret.type = "ShareBundle"
           /\ Len(ret.val.commitments) = frame.threshold
           /\ Len(ret.val.entries) = frame.n
           /\ \A i \in 1..frame.n :
                /\ ret.val.entries[i].encryptedShare
                     = ScalarMult(frame.nodes[i], Bytes(frame.shares[i]))
                /\ \E v \in 0..(fieldOrder - 1) :
                     ret.val.entries[i].proof
                       = createDlEQProof(frame.shares[i], frame.nodes[i], v)

\* C6: for every byte input, the empty one included, hashToPoint returns a
\* point (x, y) with y^2 = x^3 + 7 (mod fieldOrder).
C6_HashToPointOnCurve ==
    Returned("hashToPoint")
        => /\ ret.type = "Point"
           /\ IsOnCurve(ret.val)

\* C7: hashToPoint tries at most HashCap candidates; when none of them has a
\* square root it ends with the failure HashToPointExhausted.
C7_HashToPointCapped ==
    (frame.fn = "hashToPoint" /\ frame.iter >= HashCap)
        => /\ pc = "done"
           /\ ret.type = "error"
           /\ ret.val = "HashToPointExhausted"

\* C8: batchCreateDLEQProof on lists of different lengths fails with the
\* typed error InvalidInput and produces no proofs.
C8_BatchInvalidInput ==
    (Returned("batchCreateDLEQProof")
       /\ Len(frame.nodes) # Len(frame.shares))
        => /\ ret.type = "error"
           /\ ret.val = "InvalidInput"

\* C9: getShares for n nodes returns exactly n shares, the share at position
\* j (0-based) being polyEval at j+1; polyEval is run at each of 1..n once,
\* in order, and never at 0.
C9_GetSharesIndices ==
    Returned("getShares")
        => /\ ret.type = "[]big.Int"
           /\ Len(ret.val) = frame.n
           /\ \A j \in 1..frame.n :
                ret.val[j] = polyEval(frame.polynomial, j)
           /\ stdout = [j \in 1..frame.n |-> j]

\* C10: with threshold = 1, every one of the n >= 1 shares of getShares
\* equals the secret coeff[0].
C10_ThresholdOneShares ==
    (Returned("getShares") /\ frame.polynomial.threshold = 1 /\ frame.n >= 1)
        => /\ Len(ret.val) = frame.n
           /\ \A j \in 1..frame.n : ret.val[j] = frame.polynomial.coeff[1]

\* ------------------------------------------------------------ witnesses
C6_Witness ==
    /\ Returned("hashToPoint")
    /\ frame.data = << >>
    /\ frame.iter > 0
    /\ ret.type = "Point"

C9_Witness ==
    /\ Returned("getShares")
    /\ frame.n = MaxNodes
    /\ frame.polynomial.threshold > 1
    /\ ret.val[1] # ret.val[frame.n]

C10_Witness ==
    /\ Returned("getShares")
    /\ frame.polynomial.threshold = 1
    /\ frame.n = MaxNodes
    /\ frame.polynomial.coeff[1] = fieldOrder - 1
    /\ ret.val[frame.n] = fieldOrder - 1


\* C11: VerifyRequestIdentity returns (true, nil) only when the payload's
\* email and id token are non-empty, the token's issued-at time plus the
\* verifier's Timeout is not before the current time, the response's azp is
\* the verifier's clientID and the response's email is the payload's email;
\* every other completed call returns false with a non-nil error.
C11_VerifyOnlyWhenAllHold ==
    Returned("VerifyRequestIdentity")
        => IF ret.val.ok
           THEN /\ ret.val.err = "nil"
                /\ frame.rawPayload.Email # ""
                /\ frame.rawPayload.IDToken # << >>
                /\ frame.http.kind = "body"
                /\ Atoi(frame.http.body.Iat).err = "nil"
                /\ ~ (Atoi(frame.http.body.Iat).value + frame.g.Timeout
                        < frame.now)
                /\ frame.http.body.Azp = frame.g.clientID
                /\ frame.http.body.Email = frame.rawPayload.Email
           ELSE ret.val.err # "nil"

\* an accepted call at the edge of the time window, with a token that was
\* sent with spaces around it
C11_Witness ==
    /\ Returned("VerifyRequestIdentity")
    /\ ret.val.ok
    /\ frame.rawPayload.IDToken = << " ", "t" >>
    /\ Atoi(frame.http.body.Iat).value + frame.g.Timeout = frame.now


\* the file loadConfig reads: the one the configPath flag names when that
\* flag is passed with a non-empty value, else the one it was called with
ConfigFileRead ==
    IF frame.flags["configPath"].passed /\ frame.flags["configPath"].val # ""
    THEN frame.flags["configPath"].val
    ELSE frame.configPath

\* C12: for each flag-controlled field, the final value is the command-line
\* flag's value when that flag was explicitly passed; when it was not, the
\* flag's default does not override the field, which keeps the value set by
\* the environment variable, else by the JSON config file, else the built-in
\* default.
C12_ConfigPrecedence ==
    Returned("loadConfig")
        => \A n \in FlagNames :
             LET fld == FieldOf[n]
                 path == ConfigFileRead
                 inFile == /\ path \in DOMAIN frame.fs
                           /\ frame.fs[path].exists
                           /\ frame.fs[path].json[fld].set
             IN  ret.val[fld] =
                   IF frame.flags[n].passed THEN frame.flags[n].val
                   ELSE IF frame.environ[fld].set THEN frame.environ[fld].val
                   ELSE IF inFile THEN frame.fs[path].json[fld].val
                   ELSE defaultConfigSettings[fld]

\* register is not passed and nothing else sets it: it stays false although
\* the flag's default is true; basePath is passed and wins over the
\* environment and the document
C12_Witness ==
    /\ Returned("loadConfig")
    /\ ~ frame.flags["register"].passed
    /\ ~ frame.environ["ShouldRegister"].set
    /\ ret.val.ShouldRegister = FALSE
    /\ frame.flags["basePath"].passed
    /\ frame.environ["BasePath"].set
    /\ frame.fs["config.json"].json["BasePath"].set
    /\ ~ frame.flags["configPath"].passed
    /\ ret.val.BasePath = "/flag"

====
